---- MODULE Spec2Model ----
(***************************************************************************)
(* A model of the NLU pipeline of src/nlu/pipeline.py and of the entity    *)
(* extractors of src/nlu/entity_extractor.py.                              *)
(*                                                                         *)
(* Python values are modelled as follows.                                  *)
(*   str            a sequence of one-character strings                    *)
(*   float          an exact fraction [num, den] in lowest terms, den > 0  *)
(*   Optional[T]    << >> for None, << v >> for a value v                  *)
(*   dict           a function on its keys; where the iteration order of   *)
(*                  the dict matters, a sequence of << key, value >> pairs *)
(*   a call         [kind |-> "return", value |-> v] or                    *)
(*                  [kind |-> "raise", error |-> name of the exception]    *)
(***************************************************************************)
EXTENDS Integers, Sequences, FiniteSets, TLC

VARIABLES
    config,             \* NLUPipeline.config: the loaded YAML document
    constructed,        \* "new" before __init__, then "ok" or the exception __init__ raised
    intent_patterns,    \* NLUPipeline.intent_patterns
    warnings,           \* the intent names _build_intent_patterns printed a warning for
    entity_extractors,  \* NLUPipeline.entity_extractors: the extractor cache
    call,               \* the last call made on the pipeline: [op, arg, outcome]
    now,                \* the clock the date parser resolves relative dates against
    first,              \* history: the first process call made on the pipeline
    objects,            \* the class of every extractor object constructed so far, in order
    threads             \* for each thread, the process call it is executing and where it is

vars == <<config, constructed, intent_patterns, warnings, entity_extractors, call,
          now, first, objects, threads>>

-----------------------------------------------------------------------------
(* Bounds of the model *)

MaxTextLen == 3
MaxPatterns == 2
MaxEntities == 2
MaxIntents == 2
MaxThreads == 2
MaxWords == 3

-----------------------------------------------------------------------------
(* Python values *)

None == << >>
Some(v) == << v >>
IsNone(o) == Len(o) = 0

Return(v) == [kind |-> "return", value |-> v]
Raise(e) == [kind |-> "raise", error |-> e]

RECURSIVE Gcd(_, _)
Gcd(a, b) == IF b = 0 THEN a ELSE Gcd(b, a % b)

Abs(n) == IF n < 0 THEN -n ELSE n

\* The fraction n/d (d # 0) in lowest terms with a positive denominator.
Frac(n, d) ==
    LET s == IF d < 0 THEN -1 ELSE 1
        g == Gcd(Abs(n), Abs(d))
    IN  [num |-> (s * n) \div g, den |-> (s * d) \div g]

Zero == Frac(0, 1)
One == Frac(1, 1)
Mul(a, b) == Frac(a.num * b.num, a.den * b.den)
Gt(a, b) == a.num * b.den > b.num * a.den
Geq(a, b) == a.num * b.den >= b.num * a.den

UpperCase == <<"A", "B", "C", "D", "E", "F", "G", "H", "I", "J", "K", "L", "M",
               "N", "O", "P", "Q", "R", "S", "T", "U", "V", "W", "X", "Y", "Z">>
LowerCase == <<"a", "b", "c", "d", "e", "f", "g", "h", "i", "j", "k", "l", "m",
               "n", "o", "p", "q", "r", "s", "t", "u", "v", "w", "x", "y", "z">>

IsIn(c, letters) == \E i \in 1..Len(letters) : letters[i] = c
IndexIn(c, letters) == CHOOSE i \in 1..Len(letters) : letters[i] = c

\* str.lower() and str.upper() on the ASCII range
lower(s) ==
    [i \in 1..Len(s) |->
        IF IsIn(s[i], UpperCase) THEN LowerCase[IndexIn(s[i], UpperCase)] ELSE s[i]]
upper(s) ==
    [i \in 1..Len(s) |->
        IF IsIn(s[i], LowerCase) THEN UpperCase[IndexIn(s[i], LowerCase)] ELSE s[i]]

\* Python's `pattern in text` on strings: pattern is a contiguous substring
Contains(pattern, text) ==
    \E i \in 0..(Len(text) - Len(pattern)) :
        SubSeq(text, i + 1, i + Len(pattern)) = pattern

\* All sequences over S of length at most n
SeqsUpTo(S, n) == UNION {[1..k -> S] : k \in 0..n}

-----------------------------------------------------------------------------
(* class IntentType(Enum): a member is identified by its name *)

IntentTypeName ==
    [CALENDAR |-> <<"C", "A", "L", "E", "N", "D", "A", "R">>,
     EMAIL    |-> <<"E", "M", "A", "I", "L">>,
     TASK     |-> <<"T", "A", "S", "K">>,
     NOTE     |-> <<"N", "O", "T", "E">>,
     UNKNOWN  |-> <<"U", "N", "K", "N", "O", "W", "N">>]

IntentTypeValue ==
    [CALENDAR |-> <<"c", "a", "l", "e", "n", "d", "a", "r">>,
     EMAIL    |-> <<"e", "m", "a", "i", "l">>,
     TASK     |-> <<"t", "a", "s", "k">>,
     NOTE     |-> <<"n", "o", "t", "e">>,
     UNKNOWN  |-> <<"u", "n", "k", "n", "o", "w", "n">>]

IntentType == DOMAIN IntentTypeName

\* IntentType[key]: the member of that name, or KeyError
IsIntentTypeName(key) == \E m \in IntentType : IntentTypeName[m] = key
IntentTypeByName(key) == CHOOSE m \in IntentType : IntentTypeName[m] = key

\* The values of the four intents that have an extractor
calendar == IntentTypeValue.CALENDAR
email == IntentTypeValue.EMAIL
task == IntentTypeValue.TASK
note == IntentTypeValue.NOTE

-----------------------------------------------------------------------------
(* An insertion-ordered dict as a sequence of << key, value >> pairs *)

HasKey(d, k) == \E i \in 1..Len(d) : d[i][1] = k
Lookup(d, k) == d[CHOOSE i \in 1..Len(d) : d[i][1] = k][2]
\* d[k] = v: an existing key keeps its position, a new key goes last
Store(d, k, v) ==
    IF HasKey(d, k)
    THEN [i \in 1..Len(d) |-> IF d[i][1] = k THEN <<k, v>> ELSE d[i]]
    ELSE Append(d, <<k, v>>)

-----------------------------------------------------------------------------
(* NLUPipeline._build_intent_patterns                                      *)
(* config.intents is the ordered dict of the YAML document: pairs          *)
(* << intent_name, intent_data >>.  intent_data is YamlNull or a dict; a   *)
(* pattern is a dict that may lack "keyword" or "weight".                  *)

YamlNull == [yaml_null |-> TRUE]
IsYamlNull(v) == "yaml_null" \in DOMAIN v

\* The list comprehension of lines 65-68: the list, or the KeyError of the
\* first pattern that lacks a key.
PatternList(raw) ==
    IF \E i \in 1..Len(raw) : ~({"keyword", "weight"} \subseteq DOMAIN raw[i])
    THEN Raise("KeyError")
    ELSE Return([i \in 1..Len(raw) |-> <<raw[i].keyword, raw[i].weight>>])

\* One iteration of the loop of lines 62-70 on the entry << name, data >>.
BuildEntry(acc, name, data) ==
    IF ~IsIntentTypeName(upper(name))
    THEN [acc EXCEPT !.warnings = Append(@, name)]           \* KeyError, caught
    ELSE IF IsYamlNull(data)
    THEN [acc EXCEPT !.status = "TypeError"]                 \* None['patterns']
    ELSE IF "patterns" \notin DOMAIN data
    THEN [acc EXCEPT !.warnings = Append(@, name)]           \* KeyError, caught
    ELSE LET built == PatternList(data.patterns)
         IN  IF built.kind = "raise"
             THEN [acc EXCEPT !.warnings = Append(@, name)]  \* KeyError, caught
             ELSE [acc EXCEPT !.patterns =
                        Store(@, IntentTypeByName(upper(name)), built.value)]

RECURSIVE BuildFrom(_, _, _)
BuildFrom(intents, i, acc) ==
    IF i > Len(intents) \/ acc.status # "ok"
    THEN acc
    ELSE BuildFrom(intents, i + 1, BuildEntry(acc, intents[i][1], intents[i][2]))

_build_intent_patterns(cfg) ==
    BuildFrom(cfg.intents, 1, [status |-> "ok", patterns |-> << >>, warnings |-> << >>])

-----------------------------------------------------------------------------
(* NLUPipeline.extract_intent *)

\* intent_patterns flattened in the iteration order of the two nested loops
RECURSIVE Flatten(_, _)
Flatten(patterns, i) ==
    IF i > Len(patterns)
    THEN << >>
    ELSE [j \in 1..Len(patterns[i][2]) |->
            [intent_type |-> patterns[i][1],
             pattern |-> patterns[i][2][j][1],
             weight |-> patterns[i][2][j][2]]]
         \o Flatten(patterns, i + 1)

NoMatch ==
    [best_match |-> "UNKNOWN", best_confidence |-> Zero,
     best_pattern |-> None, best_weight |-> Zero, error |-> None]

\* Mutant: `>=` for `>`, so that the last of several equal scores wins.
ScoreStep_LastWins(best, text, p) ==
    IF ~Contains(p.pattern, text)
    THEN best
    ELSE IF Len(text) = 0
    THEN [best EXCEPT !.error = Some("ZeroDivisionError")]
    ELSE LET pattern_confidence == Frac(Len(p.pattern), Len(text))
             weighted_confidence == Mul(pattern_confidence, p.weight)
         IN  IF Geq(weighted_confidence, best.best_confidence)
             THEN [best_match |-> p.intent_type,
                   best_confidence |-> weighted_confidence,
                   best_pattern |-> Some(p.pattern),
                   best_weight |-> p.weight,
                   error |-> None]
             ELSE best

\* The body of the inner loop, lines 92-101, for one (pattern, weight).
ScoreStep(best, text, p) ==
    IF ~Contains(p.pattern, text)
    THEN best
    ELSE IF Len(text) = 0
    THEN [best EXCEPT !.error = Some("ZeroDivisionError")]
    ELSE LET pattern_confidence == Frac(Len(p.pattern), Len(text))
             weighted_confidence == Mul(pattern_confidence, p.weight)
         IN  IF Gt(weighted_confidence, best.best_confidence)
             THEN [best_match |-> p.intent_type,
                   best_confidence |-> weighted_confidence,
                   best_pattern |-> Some(p.pattern),
                   best_weight |-> p.weight,
                   error |-> None]
             ELSE best

RECURSIVE ScoreFrom(_, _, _, _)
ScoreFrom(flat, i, text, best) ==
    IF i > Len(flat) \/ ~IsNone(best.error)
    THEN best
    ELSE ScoreFrom(flat, i + 1, text, ScoreStep(best, text, flat[i]))

extract_intent(patterns, raw) ==
    LET text == lower(raw)
        best == ScoreFrom(Flatten(patterns, 1), 1, text, NoMatch)
    IN  IF ~IsNone(best.error)
        THEN Raise(best.error[1])
        ELSE Return([type |-> best.best_match,
                     confidence |-> best.best_confidence,
                     entities |-> << >>,
                     raw_text |-> text,
                     matched_pattern |-> best.best_pattern,
                     pattern_weight |-> best.best_weight])

-----------------------------------------------------------------------------
(* NLUPipeline.map_to_function *)

\* Mutant: the TASK row repeats the NOTE row.
function_mapping_TaskRowCopied ==
    [CALENDAR |-> "schedule_meeting",
     EMAIL    |-> "send_email",
     TASK     |-> "create_note",
     NOTE     |-> "create_note"]

function_mapping ==
    [CALENDAR |-> "schedule_meeting",
     EMAIL    |-> "send_email",
     TASK     |-> "create_task",
     NOTE     |-> "create_note"]

\* `if entity.metadata:` None and the empty dict are both false
Truthy(metadata) == ~IsNone(metadata) /\ DOMAIN metadata[1] # {}

\* parameters[key] = value
SetItem(parameters, key, value) ==
    [k \in DOMAIN parameters \cup {key} |-> IF k = key THEN value ELSE parameters[k]]

\* Mutant: a key that is already set is kept (first entity of a type wins).
AddEntity_FirstWins(parameters, entity) ==
    LET p1 == IF entity.type \in DOMAIN parameters
              THEN parameters
              ELSE SetItem(parameters, entity.type, entity.value)
    IN  IF Truthy(entity.metadata) /\ (entity.type \o "_metadata") \notin DOMAIN p1
        THEN SetItem(p1, entity.type \o "_metadata", entity.metadata[1])
        ELSE p1

\* The body of the loop of lines 141-145 for one entity.
AddEntity(parameters, entity) ==
    LET p1 == SetItem(parameters, entity.type, entity.value)
    IN  IF Truthy(entity.metadata)
        THEN SetItem(p1, entity.type \o "_metadata", entity.metadata[1])
        ELSE p1

RECURSIVE Parameters(_, _, _)
Parameters(entities, i, parameters) ==
    IF i > Len(entities)
    THEN parameters
    ELSE Parameters(entities, i + 1, AddEntity(parameters, entities[i]))

\* Mutant: an intent of confidence zero is treated like UNKNOWN.
map_to_function_DropsZeroConfidence(intent) ==
    IF intent.type = "UNKNOWN" \/ intent.confidence = Zero
    THEN None
    ELSE Some([name |-> function_mapping[intent.type],
               parameters |-> Parameters(intent.entities, 1, << >>),
               confidence |-> intent.confidence])

\* Mutant: the confidence of the call is scaled by the first entity's.
map_to_function_ScaledConfidence(intent) ==
    IF intent.type = "UNKNOWN"
    THEN None
    ELSE Some([name |-> function_mapping[intent.type],
               parameters |-> Parameters(intent.entities, 1, << >>),
               confidence |-> IF Len(intent.entities) = 0
                              THEN intent.confidence
                              ELSE Mul(intent.confidence, intent.entities[1].confidence)])

map_to_function(intent) ==
    IF intent.type = "UNKNOWN"
    THEN None
    ELSE Some([name |-> function_mapping[intent.type],
               parameters |-> Parameters(intent.entities, 1, << >>),
               confidence |-> intent.confidence])

-----------------------------------------------------------------------------
(* Regular expressions (module re), as far as the extractors' patterns use *)
(* them.  A pattern is a tree; MatchEnd is the backtracking matcher: it    *)
(* tries the alternatives in the order re tries them and returns the end   *)
(* of the first way to match the whole of `todo`, the nodes still to be    *)
(* matched from offset pos on, or -1.                                      *)

Digits == {"0", "1", "2", "3", "4", "5", "6", "7", "8", "9"}
UpperLetters == {UpperCase[i] : i \in 1..Len(UpperCase)}
LowerLetters == {LowerCase[i] : i \in 1..Len(LowerCase)}
Letters == UpperLetters \cup LowerLetters
Whitespace == {" ", "\t", "\n", "\r"}
WordChars == Letters \cup Digits \cup {"_"}

Chars(S) == [op |-> "chars", set |-> S]
NotChars(S) == [op |-> "notchars", set |-> S]
Cat(items) == [op |-> "cat", items |-> items]
Alt(items) == [op |-> "alt", items |-> items]
Star(r) == [op |-> "star", item |-> r, from |-> -1]
Plus(r) == Cat(<<r, Star(r)>>)
Opt(r) == Alt(<<r, Cat(<< >>)>>)
Lit(word) == Cat([i \in 1..Len(word) |-> Chars({word[i]})])
WordBoundary == [op |-> "wordb"]
EndOfString == [op |-> "eos"]

\* \b at offset pos: exactly one of the characters around it is a word character
AtWordBoundary(text, pos) ==
    (pos > 0 /\ text[pos] \in WordChars) # (pos < Len(text) /\ text[pos + 1] \in WordChars)
\* $ at offset pos: the end of the string, or just before its final newline
AtEnd(text, pos) ==
    pos = Len(text) \/ (pos = Len(text) - 1 /\ text[Len(text)] = "\n")

Accepts(r, c) == IF r.op = "chars" THEN c \in r.set ELSE c \notin r.set
IsCharClass(r) == r.op \in {"chars", "notchars"}
\* The length of the longest run of characters from offset pos that r accepts
RunLength(r, text, pos) ==
    CHOOSE k \in 0..(Len(text) - pos) :
        /\ \A i \in 1..k : Accepts(r, text[pos + i])
        /\ k = Len(text) - pos \/ ~Accepts(r, text[pos + k + 1])

RECURSIVE MatchEnd(_, _, _)
RECURSIVE TryLengths(_, _, _, _)

\* r* for a character class r, after which `rest` must match: the longest run
\* first, then one character less at a time (what the generic star does,
\* without one level of recursion per character)
TryLengths(rest, text, pos, k) ==
    IF k < 0
    THEN -1
    ELSE LET e == MatchEnd(rest, text, pos + k)
         IN  IF e >= 0 THEN e ELSE TryLengths(rest, text, pos, k - 1)

MatchEnd(todo, text, pos) ==
    IF Len(todo) = 0
    THEN pos
    ELSE LET r == Head(todo)
             rest == Tail(todo)
         IN  CASE IsCharClass(r) ->
                    IF pos < Len(text) /\ Accepts(r, text[pos + 1])
                    THEN MatchEnd(rest, text, pos + 1)
                    ELSE -1
               [] r.op = "cat" -> MatchEnd(r.items \o rest, text, pos)
               [] r.op = "alt" ->
                    IF Len(r.items) = 0
                    THEN -1
                    ELSE LET e == MatchEnd(<<Head(r.items)>> \o rest, text, pos)
                         IN  IF e >= 0
                             THEN e
                             ELSE MatchEnd(<<Alt(Tail(r.items))>> \o rest, text, pos)
               [] r.op = "star" /\ IsCharClass(r.item) ->
                    TryLengths(rest, text, pos, RunLength(r.item, text, pos))
               [] r.op = "star" /\ ~IsCharClass(r.item) ->
                    \* greedy: one more round first, unless the last round was empty
                    IF r.from = pos
                    THEN MatchEnd(rest, text, pos)
                    ELSE LET e == MatchEnd(<<r.item, [r EXCEPT !.from = pos]>> \o rest,
                                           text, pos)
                         IN  IF e >= 0 THEN e ELSE MatchEnd(rest, text, pos)
               [] r.op = "wordb" ->
                    IF AtWordBoundary(text, pos) THEN MatchEnd(rest, text, pos) ELSE -1
               [] r.op = "eos" ->
                    IF AtEnd(text, pos) THEN MatchEnd(rest, text, pos) ELSE -1

\* re.match(pattern, value): a match at the start of value
Matches(pattern, value) == MatchEnd(<<pattern>>, value, 0) >= 0

\* pattern.finditer(text): the spans of the non-overlapping matches, leftmost
\* first, scanning on from the end of each match (one position further after
\* an empty match)
RECURSIVE NextMatches(_, _)
NextMatches(ends, pos) ==
    LET starts == {s \in pos..(Len(ends) - 1) : ends[s + 1] >= 0}
    IN  IF starts = {}
        THEN << >>
        ELSE LET s == CHOOSE s \in starts : \A t \in starts : s <= t
                 e == ends[s + 1]
             IN  <<[start |-> s, end |-> e]>>
                 \o NextMatches(ends, IF e > s THEN e ELSE s + 1)

FindIter(pattern, text) ==
    NextMatches([i \in 1..(Len(text) + 1) |-> MatchEnd(<<pattern>>, text, i - 1)], 0)

-----------------------------------------------------------------------------
(* The patterns of the extractors, src/nlu/entity_extractor.py *)

Digit == Chars(Digits)
Spaces == Plus(Chars(Whitespace))
AnySpaces == Star(Chars(Whitespace))
DigitRun == Plus(Digit)
OneOrTwoDigits == Cat(<<Digit, Opt(Digit)>>)

\* \d{1,2}(?::\d{2})?\s*(?:am|pm|AM|PM)?   (lines 95, 127, 222)
ClockTime ==
    Cat(<<OneOrTwoDigits,
          Opt(Cat(<<Chars({":"}), Digit, Digit>>)),
          AnySpaces,
          Opt(Alt(<<Lit(<<"a", "m">>),
                    Lit(<<"p", "m">>),
                    Lit(<<"A", "M">>),
                    Lit(<<"P", "M">>)>>))>>)

\* \b(?:tomorrow|today|yesterday)\b   (line 98)
RelativeDay ==
    Cat(<<WordBoundary,
          Alt(<<Lit(<<"t", "o", "m", "o", "r", "r", "o", "w">>),
                Lit(<<"t", "o", "d", "a", "y">>),
                Lit(<<"y", "e", "s", "t", "e", "r", "d", "a", "y">>)>>),
          WordBoundary>>)

MonthNames ==
    <<<<"J", "a", "n", "u", "a", "r", "y">>,
      <<"F", "e", "b", "r", "u", "a", "r", "y">>,
      <<"M", "a", "r", "c", "h">>,
      <<"A", "p", "r", "i", "l">>,
      <<"M", "a", "y">>,
      <<"J", "u", "n", "e">>,
      <<"J", "u", "l", "y">>,
      <<"A", "u", "g", "u", "s", "t">>,
      <<"S", "e", "p", "t", "e", "m", "b", "e", "r">>,
      <<"O", "c", "t", "o", "b", "e", "r">>,
      <<"N", "o", "v", "e", "m", "b", "e", "r">>,
      <<"D", "e", "c", "e", "m", "b", "e", "r">>>>

\* CalendarEntityExtractor 'datetime', lines 127-132
DatetimePatterns ==
    <<Cat(<<WordBoundary, ClockTime, WordBoundary>>),
      Cat(<<WordBoundary,
            Alt(<<Lit(<<"t", "o", "m", "o", "r", "r", "o", "w">>),
                  Lit(<<"t", "o", "d", "a", "y">>),
                  Lit(<<"y", "e", "s", "t", "e", "r", "d", "a", "y">>),
                  Cat(<<Lit(<<"n", "e", "x", "t">>), Spaces, Plus(Chars(WordChars))>>),
                  Cat(<<Lit(<<"l", "a", "s", "t">>), Spaces, Plus(Chars(WordChars))>>)>>),
            WordBoundary>>),
      Cat(<<WordBoundary,
            Alt([i \in 1..Len(MonthNames) |-> Lit(MonthNames[i])]),
            Spaces,
            OneOrTwoDigits,
            Opt(Alt(<<Lit(<<"s", "t">>),
                      Lit(<<"n", "d">>),
                      Lit(<<"r", "d">>),
                      Lit(<<"t", "h">>)>>)),
            WordBoundary>>),
      Cat(<<WordBoundary,
            Alt(<<Lit(<<"i", "n">>),
                  Lit(<<"a", "f", "t", "e", "r">>)>>),
            Spaces, DigitRun, Spaces,
            Alt(<<Lit(<<"d", "a", "y">>),
                  Lit(<<"w", "e", "e", "k">>),
                  Lit(<<"m", "o", "n", "t", "h">>),
                  Lit(<<"y", "e", "a", "r">>)>>),
            Opt(Chars({"s"})),
            WordBoundary>>)>>

\* \b[A-Z][a-z]+(?:\s+[A-Z][a-z]+)*\b   (lines 136, 256, 314)
NamePattern ==
    Cat(<<WordBoundary,
          Chars(UpperLetters), Plus(Chars(LowerLetters)),
          Star(Cat(<<Spaces, Chars(UpperLetters), Plus(Chars(LowerLetters))>>)),
          WordBoundary>>)

\* \b(?:he|she|they|him|her|them)\b   (line 138)
PronounPattern ==
    Cat(<<WordBoundary,
          Alt(<<Lit(<<"h", "e">>),
                Lit(<<"s", "h", "e">>),
                Lit(<<"t", "h", "e", "y">>),
                Lit(<<"h", "i", "m">>),
                Lit(<<"h", "e", "r">>),
                Lit(<<"t", "h", "e", "m">>)>>),
          WordBoundary>>)

\* \b(?:in|at|on)\s+[a-zA-Z\s]+(?:\s+[a-zA-Z\s]+)*\b   (lines 142, 378)
LocationPattern ==
    Cat(<<WordBoundary,
          Alt(<<Lit(<<"i", "n">>),
                Lit(<<"a", "t">>),
                Lit(<<"o", "n">>)>>),
          Spaces,
          Plus(Chars(Letters \cup Whitespace)),
          Star(Cat(<<Spaces, Plus(Chars(Letters \cup Whitespace))>>)),
          WordBoundary>>)

\* \b(?:for\s+)?\d+\s+(?:hour|minute|day|week|month)s?\b   (lines 146, 323)
DurationPattern ==
    Cat(<<WordBoundary,
          Opt(Cat(<<Lit(<<"f", "o", "r">>), Spaces>>)),
          DigitRun, Spaces,
          Alt(<<Lit(<<"h", "o", "u", "r">>),
                Lit(<<"m", "i", "n", "u", "t", "e">>),
                Lit(<<"d", "a", "y">>),
                Lit(<<"w", "e", "e", "k">>),
                Lit(<<"m", "o", "n", "t", "h">>)>>),
          Opt(Chars({"s"})),
          WordBoundary>>)

\* \b[A-Za-z0-9._%+-]+@[A-Za-z0-9.-]+\.[A-Z|a-z]{2,}\b   (line 258)
EmailAddressPattern ==
    Cat(<<WordBoundary,
          Plus(Chars(Letters \cup Digits \cup {".", "_", "%", "+", "-"})),
          Chars({"@"}),
          Plus(Chars(Letters \cup Digits \cup {".", "-"})),
          Chars({"."}),
          Chars(Letters \cup {"|"}), Chars(Letters \cup {"|"}),
          Star(Chars(Letters \cup {"|"})),
          WordBoundary>>)

\* (?:subject:|")([^"\n]+)(?:"|$)   (lines 262, 374)
SubjectPattern ==
    Cat(<<Alt(<<Lit(<<"s", "u", "b", "j", "e", "c", "t", ":">>), Chars({"\""})>>),
          Plus(NotChars({"\"", "\n"})),
          Alt(<<Chars({"\""}), EndOfString>>)>>)

\* TaskEntityExtractor 'priority', lines 318-319
PriorityPatterns ==
    <<Cat(<<WordBoundary,
            Alt(<<Lit(<<"h", "i", "g", "h">>),
                  Lit(<<"l", "o", "w">>),
                  Lit(<<"u", "r", "g", "e", "n", "t">>),
                  Lit(<<"i", "m", "p", "o", "r", "t", "a", "n", "t">>),
                  Lit(<<"c", "r", "i", "t", "i", "c", "a", "l">>)>>),
            Spaces, Lit(<<"p", "r", "i", "o", "r", "i", "t", "y">>), WordBoundary>>),
      Cat(<<WordBoundary,
            Alt(<<Lit(<<"u", "r", "g", "e", "n", "t">>),
                  Lit(<<"i", "m", "p", "o", "r", "t", "a", "n", "t">>),
                  Lit(<<"c", "r", "i", "t", "i", "c", "a", "l">>)>>),
            WordBoundary>>)>>

\* self.patterns of each extractor class: entity type -> patterns, in the
\* order the dict literal lists them
ExtractorPatterns ==
    [CalendarEntityExtractor |->
        << <<"datetime", DatetimePatterns>>,
           <<"person", <<NamePattern, PronounPattern>> >>,
           <<"location", <<LocationPattern>> >>,
           <<"duration", <<DurationPattern>> >> >>,
     EmailEntityExtractor |->
        << <<"person", <<NamePattern, EmailAddressPattern>> >>,
           <<"subject", <<SubjectPattern>> >> >>,
     TaskEntityExtractor |->
        << <<"person", <<NamePattern>> >>,
           <<"priority", PriorityPatterns>>,
           <<"duration", <<DurationPattern>> >> >>,
     NoteEntityExtractor |->
        << <<"subject", <<SubjectPattern>> >>,
           <<"location", <<LocationPattern>> >> >>]

-----------------------------------------------------------------------------
(* dateparser.parse, the external date parser (entity_extractor.py line 5). *)
(* It is modelled as a function of the string and of the clock `now`, which *)
(* only Tick moves: it knows the relative day words, clock times with       *)
(* minutes or am/pm and a clock time next to a relative day word, and       *)
(* returns None for every other string.                                     *)

DigitChars == <<"0", "1", "2", "3", "4", "5", "6", "7", "8", "9">>
DigitValue(c) == IndexIn(c, DigitChars) - 1
TwoDigits(n) == <<DigitChars[((n \div 10) % 10) + 1], DigitChars[(n % 10) + 1]>>
FourDigits(n) == TwoDigits(n \div 100) \o TwoDigits(n % 100)

\* str.strip()
strip(s) ==
    LET kept == {i \in 1..Len(s) : s[i] \notin Whitespace}
    IN  IF kept = {}
        THEN << >>
        ELSE SubSeq(s, CHOOSE i \in kept : \A j \in kept : i <= j,
                       CHOOSE i \in kept : \A j \in kept : j <= i)

IsLeap(year) == (year % 4 = 0 /\ year % 100 # 0) \/ year % 400 = 0
DaysInMonth(year, month) ==
    IF month = 2
    THEN (IF IsLeap(year) THEN 29 ELSE 28)
    ELSE IF month \in {4, 6, 9, 11} THEN 30 ELSE 31

NextDay(d) ==
    IF d.day < DaysInMonth(d.year, d.month)
    THEN [d EXCEPT !.day = @ + 1]
    ELSE IF d.month < 12
    THEN [d EXCEPT !.day = 1, !.month = @ + 1]
    ELSE [d EXCEPT !.day = 1, !.month = 1, !.year = @ + 1]
PreviousDay(d) ==
    IF d.day > 1
    THEN [d EXCEPT !.day = @ - 1]
    ELSE IF d.month > 1
    THEN [d EXCEPT !.day = DaysInMonth(d.year, d.month - 1), !.month = @ - 1]
    ELSE [d EXCEPT !.day = 31, !.month = 12, !.year = @ - 1]

\* A clock time "H", "HH", "H:MM", each with optional spaces and am/pm
ClockReading(v, clock) ==
    LET two == Len(v) >= 2 /\ v[2] \in Digits
        hour == IF two THEN 10 * DigitValue(v[1]) + DigitValue(v[2]) ELSE DigitValue(v[1])
        after == IF two THEN 3 ELSE 2
        colon == Len(v) >= after /\ v[after] = ":"
        minute == IF colon
                  THEN 10 * DigitValue(v[after + 1]) + DigitValue(v[after + 2])
                  ELSE 0
        half == lower(SubSeq(v, Len(v) - 1, Len(v)))
        am == Len(v) >= 3 /\ half = <<"a", "m">>
        pm == Len(v) >= 3 /\ half = <<"p", "m">>
        hour24 == IF pm /\ hour < 12 THEN hour + 12
                  ELSE IF am /\ hour = 12 THEN 0
                  ELSE hour
    IN  IF ~(colon \/ am \/ pm)
             \/ minute > 59
             \/ ((am \/ pm) /\ (hour < 1 \/ hour > 12))
             \/ hour > 23
        THEN None
        ELSE Some([clock EXCEPT !.hour = hour24, !.minute = minute])

\* today, tomorrow, yesterday
RelativeReading(v, clock) ==
    IF v = <<"t", "o", "d", "a", "y">> THEN Some(clock)
    ELSE IF v = <<"t", "o", "m", "o", "r", "r", "o", "w">> THEN Some(NextDay(clock))
    ELSE IF v = <<"y", "e", "s", "t", "e", "r", "d", "a", "y">> THEN Some(PreviousDay(clock))
    ELSE None

ClockOrNone(v, clock) ==
    IF MatchEnd(<<ClockTime, EndOfString>>, v, 0) >= 0 THEN ClockReading(v, clock) ELSE None

\* "2pm tomorrow", "tomorrow 2pm": the day of the one word, the time of the other
CombinedReading(v, clock) ==
    LET gaps == {i \in 1..Len(v) : v[i] \in Whitespace}
        gap == CHOOSE i \in gaps : \A j \in gaps : i <= j
        head == SubSeq(v, 1, gap - 1)
        tail == strip(SubSeq(v, gap + 1, Len(v)))
    IN  IF gaps = {} THEN None
        ELSE IF ~IsNone(RelativeReading(head, clock))
        THEN ClockOrNone(tail, RelativeReading(head, clock)[1])
        ELSE IF ~IsNone(RelativeReading(tail, clock))
        THEN ClockOrNone(head, RelativeReading(tail, clock)[1])
        ELSE None

dateparser_parse(value, clock) ==
    LET v == lower(strip(value))
    IN  IF ~IsNone(RelativeReading(v, clock)) THEN RelativeReading(v, clock)
        ELSE IF MatchEnd(<<ClockTime, EndOfString>>, v, 0) >= 0 THEN ClockReading(v, clock)
        ELSE CombinedReading(v, clock)

-----------------------------------------------------------------------------
(* Clocks and texts used as inputs *)

Morning == [year |-> 2025, month |-> 3, day |-> 1, hour |-> 9, minute |-> 30]
NewYearsEve == [year |-> 2025, month |-> 12, day |-> 31, hour |-> 23, minute |-> 5]
Clocks == {Morning, NewYearsEve}

\* clock a reads earlier than clock b
Before(a, b) ==
    LET A == <<a.year, a.month, a.day, a.hour, a.minute>>
        B == <<b.year, b.month, b.day, b.hour, b.minute>>
    IN  \E i \in 1..5 : A[i] < B[i] /\ \A j \in 1..(i - 1) : A[j] = B[j]

MeetingRequest ==
    <<"M", "e", "e", "t", "i", "n", "g", " ", "w", "i", "t", "h", " ", "B", "o", "b", " ", "a", "t", " ", "2", "p", "m", " ", "t", "o", "m", "o", "r", "r", "o", "w">>

EmailRequest ==
    <<"e", "m", "a", "i", "l", " ", "A", "n", "n", " ", "L", "e", "e", " ", "s", "u", "b", "j", "e", "c", "t", ":", " ", "h", "i">>

SampleTexts ==
    {<<>>,
     <<" ", " ", " ">>,
     <<"h", "e", "l", "l", "o">>,
     <<"s", "c", "h", "e", "d", "u", "l", "e">>,
     MeetingRequest,
     EmailRequest,
     <<"t", "a", "s", "k", " ", "f", "o", "r", " ", "B", "o", "b", " ", "u", "r", "g", "e", "n", "t", " ", "2", " ", "h", "o", "u", "r", "s">>,
     <<"n", "o", "t", "e", " ", "o", "n", " ", "t", "h", "e", " ", "r", "o", "o", "f">>}

-----------------------------------------------------------------------------
(* The extractors, src/nlu/entity_extractor.py *)

\* len(value.split()): the number of whitespace-separated tokens
TokenCount(value) ==
    Cardinality({i \in 1..Len(value) :
        value[i] \notin Whitespace /\ (i = 1 \/ value[i - 1] \in Whitespace)})

\* BaseEntityExtractor._calculate_confidence
base_confidence(entity_type) ==
    CASE entity_type = "datetime" -> Frac(9, 10)
      [] entity_type = "person" -> Frac(8, 10)
      [] entity_type = "location" -> Frac(7, 10)
      [] entity_type = "duration" -> Frac(8, 10)
      [] entity_type = "priority" -> Frac(7, 10)
      [] entity_type = "subject" -> Frac(7, 10)
      [] OTHER -> Frac(6, 10)

\* A confidence that ignores the value
_calculate_confidence_BaseOnly(entity_type, value) == base_confidence(entity_type)

_calculate_confidence(entity_type, value) ==
    IF entity_type = "datetime" /\ Matches(ClockTime, value)
    THEN Frac(95, 100)
    ELSE IF entity_type = "datetime" /\ Matches(RelativeDay, value)
    THEN Frac(85, 100)
    ELSE IF entity_type = "person" /\ TokenCount(value) > 1
    THEN Frac(9, 10)
    ELSE base_confidence(entity_type)

\* A suffix rule without the exception for 11, 12 and 13
DaySuffix_LastDigitOnly(day) ==
    IF day % 10 = 1 THEN <<"s", "t">>
    ELSE IF day % 10 = 2 THEN <<"n", "d">>
    ELSE IF day % 10 = 3 THEN <<"r", "d">>
    ELSE <<"t", "h">>

\* The day suffix of lines 224-230
DaySuffix(day) ==
    IF day % 10 = 1 /\ day # 11 THEN <<"s", "t">>
    ELSE IF day % 10 = 2 /\ day # 12 THEN <<"n", "d">>
    ELSE IF day % 10 = 3 /\ day # 13 THEN <<"r", "d">>
    ELSE <<"t", "h">>

\* parsed_date.strftime(f"%B %d{day_suffix}, %Y at %I:%M %p")
HumanReadable(d) ==
    LET hour12 == IF d.hour % 12 = 0 THEN 12 ELSE d.hour % 12
    IN  MonthNames[d.month] \o <<" ">> \o TwoDigits(d.day) \o DaySuffix(d.day)
        \o <<",", " ">> \o FourDigits(d.year) \o <<" ", "a", "t", " ">>
        \o TwoDigits(hour12) \o <<":">> \o TwoDigits(d.minute) \o <<" ">>
        \o (IF d.hour < 12 THEN <<"A", "M">> ELSE <<"P", "M">>)

\* A parser wrapper that calls an unparsed fragment relative
_parse_datetime_RelativeOnFailure(value, clock) ==
    LET parsed_date == dateparser_parse(value, clock)
    IN  [original |-> value,
         parsed |-> parsed_date,
         type |-> IF ~IsNone(parsed_date)
                     /\ (Contains(<<"a", "t">>, lower(value)) \/ Matches(ClockTime, value))
                  THEN "absolute"
                  ELSE "relative",
         human_readable |-> IF IsNone(parsed_date) THEN value ELSE HumanReadable(parsed_date[1])]

\* CalendarEntityExtractor._parse_datetime
_parse_datetime(value, clock) ==
    LET parsed_date == dateparser_parse(value, clock)
    IN  IF ~IsNone(parsed_date)
        THEN [original |-> value,
              parsed |-> parsed_date,
              type |-> IF Contains(<<"a", "t">>, lower(value)) \/ Matches(ClockTime, value)
                       THEN "absolute"
                       ELSE "relative",
              human_readable |-> HumanReadable(parsed_date[1])]
        ELSE [original |-> value,
              parsed |-> None,
              type |-> "unknown",
              human_readable |-> value]

\* CalendarEntityExtractor._extract_metadata; the other extractors pass no metadata
_extract_metadata(cls, entity_type, value, clock) ==
    IF cls = "CalendarEntityExtractor" /\ entity_type = "datetime"
    THEN Some(_parse_datetime(value, clock))
    ELSE None

\* Entities whose offsets count from 1
EntitiesOfPattern_OneBased(cls, entity_type, pattern, text, clock) ==
    LET spans == FindIter(pattern, text)
    IN  [k \in 1..Len(spans) |->
            LET value == SubSeq(text, spans[k].start + 1, spans[k].end)
            IN  [type |-> entity_type,
                 value |-> value,
                 confidence |-> _calculate_confidence(entity_type, value),
                 start |-> spans[k].start + 1,
                 end |-> spans[k].end + 1,
                 metadata |-> _extract_metadata(cls, entity_type, value, clock)]]

\* The innermost loop of extract_entities: one Entity per match of one pattern
EntitiesOfPattern(cls, entity_type, pattern, text, clock) ==
    LET spans == FindIter(pattern, text)
    IN  [k \in 1..Len(spans) |->
            LET value == SubSeq(text, spans[k].start + 1, spans[k].end)
            IN  [type |-> entity_type,
                 value |-> value,
                 confidence |-> _calculate_confidence(entity_type, value),
                 start |-> spans[k].start,
                 end |-> spans[k].end,
                 metadata |-> _extract_metadata(cls, entity_type, value, clock)]]

RECURSIVE EntitiesOfPatterns(_, _, _, _, _, _)

\* A loop that drops a match overlapping a match of an earlier pattern of the type
EntitiesOfPatterns_Deduplicated(cls, entity_type, patterns, j, text, clock) ==
    IF j > Len(patterns)
    THEN << >>
    ELSE LET head == EntitiesOfPattern(cls, entity_type, patterns[j], text, clock)
             rest == EntitiesOfPatterns(cls, entity_type, patterns, j + 1, text, clock)
             Clash(e) == \E i \in 1..Len(head) :
                             head[i].start < e.end /\ e.start < head[i].end
         IN  head \o SelectSeq(rest, LAMBDA e : ~Clash(e))

EntitiesOfPatterns(cls, entity_type, patterns, j, text, clock) ==
    IF j > Len(patterns)
    THEN << >>
    ELSE EntitiesOfPattern(cls, entity_type, patterns[j], text, clock)
         \o EntitiesOfPatterns(cls, entity_type, patterns, j + 1, text, clock)

RECURSIVE EntitiesOfTypes(_, _, _, _)
EntitiesOfTypes(cls, i, text, clock) ==
    IF i > Len(ExtractorPatterns[cls])
    THEN << >>
    ELSE EntitiesOfPatterns(cls, ExtractorPatterns[cls][i][1],
                            ExtractorPatterns[cls][i][2], 1, text, clock)
         \o EntitiesOfTypes(cls, i + 1, text, clock)

\* The entities of the sample texts, tabulated once
Extracted ==
    [cls \in DOMAIN ExtractorPatterns, text \in SampleTexts, clock \in Clocks |->
        EntitiesOfTypes(cls, 1, text, clock)]

\* <extractor>.extract_entities(text), for the extractor instance `extractor`
ExtractorEntities(extractor, text, clock) ==
    IF text \in SampleTexts /\ clock \in Clocks
    THEN Extracted[extractor.cls, text, clock]
    ELSE EntitiesOfTypes(extractor.cls, 1, text, clock)

\* get_entity_extractor: the class registered for the intent name, instantiated
extractors ==
    << <<calendar, "CalendarEntityExtractor">>,
       <<email, "EmailEntityExtractor">>,
       <<task, "TaskEntityExtractor">>,
       <<note, "NoteEntityExtractor">> >>

\* A factory that falls back to the note extractor
get_entity_extractor_Default(intent_type, made) ==
    IF ~HasKey(extractors, intent_type)
    THEN Return([cls |-> "NoteEntityExtractor", id |-> Len(made) + 1])
    ELSE Return([cls |-> Lookup(extractors, intent_type), id |-> Len(made) + 1])

\* extractor_class() constructs a new object: it is the next one after `made`
get_entity_extractor(intent_type, made) ==
    IF ~HasKey(extractors, intent_type)
    THEN Raise("ValueError")
    ELSE Return([cls |-> Lookup(extractors, intent_type), id |-> Len(made) + 1])

-----------------------------------------------------------------------------
(* NLUPipeline: the extractor cache, extract_entities and process.  Each    *)
(* operator returns the cache and the constructed objects it leaves and the *)
(* outcome of the call.                                                     *)

\* A cache that hands out the extractor inserted last on a hit
_get_entity_extractor_LastInserted(cache, made, intent_type) ==
    IF HasKey(cache, intent_type)
    THEN [cache |-> cache, objects |-> made, outcome |-> Return(cache[Len(cache)][2])]
    ELSE LET created == get_entity_extractor(intent_type, made)
         IN  IF created.kind = "raise"
             THEN [cache |-> cache, objects |-> made, outcome |-> created]
             ELSE [cache |-> Store(cache, intent_type, created.value),
                   objects |-> Append(made, created.value.cls),
                   outcome |-> Return(created.value)]

\* A cache that builds a new extractor on every call and stores it over the old
_get_entity_extractor_Rebuilding(cache, made, intent_type) ==
    LET created == get_entity_extractor(intent_type, made)
    IN  IF created.kind = "raise"
        THEN [cache |-> cache, objects |-> made, outcome |-> created]
        ELSE [cache |-> Store(cache, intent_type, created.value),
              objects |-> Append(made, created.value.cls),
              outcome |-> Return(created.value)]

_get_entity_extractor(cache, made, intent_type) ==
    IF HasKey(cache, intent_type)
    THEN [cache |-> cache, objects |-> made, outcome |-> Return(Lookup(cache, intent_type))]
    ELSE LET created == get_entity_extractor(intent_type, made)
         IN  IF created.kind = "raise"
             THEN [cache |-> cache, objects |-> made, outcome |-> created]
             ELSE [cache |-> Store(cache, intent_type, created.value),
                   objects |-> Append(made, created.value.cls),
                   outcome |-> Return(created.value)]

\* `extractor` is the object _get_entity_extractor handed to the call, if any
extract_entities(cache, made, text, intent_type, clock) ==
    LET got == _get_entity_extractor(cache, made, intent_type)
    IN  IF got.outcome.kind = "raise"
        THEN [cache |-> got.cache,
              objects |-> got.objects,
              outcome |-> got.outcome,
              extractor |-> None]
        ELSE [cache |-> got.cache,
              objects |-> got.objects,
              outcome |-> Return(ExtractorEntities(got.outcome.value, text, clock)),
              extractor |-> Some(got.outcome.value)]

process(patterns, cache, made, text, clock) ==
    LET classified == extract_intent(patterns, text)
    IN  IF classified.kind = "raise"
        THEN [cache |-> cache, objects |-> made, outcome |-> classified,
              extractor |-> None]
        ELSE LET intent == classified.value
                 extracted == extract_entities(cache, made, text,
                                               IntentTypeValue[intent.type], clock)
             IN  IF extracted.outcome.kind = "raise"
                 THEN extracted
                 ELSE [cache |-> extracted.cache,
                       objects |-> extracted.objects,
                       outcome |-> Return(map_to_function(
                           [intent EXCEPT !.entities = extracted.outcome.value])),
                       extractor |-> extracted.extractor]

-----------------------------------------------------------------------------
(* The operations of a constructed pipeline, each recorded in `call` *)

NoCall == [op |-> "none", arg |-> << >>, outcome |-> Return(None)]

\* The threads that may call the pipeline, and a thread that is in no call
Threads == 1..MaxThreads
Idle == [pc |-> "idle", text |-> << >>, steps |-> << >>, intent |-> None,
         created |-> None, extractor |-> None, entities |-> None, outcome |-> None]

MapToFunction(intent) ==
    /\ constructed = "ok"
    /\ call' = [op |-> "map_to_function", arg |-> intent,
                outcome |-> Return(map_to_function(intent))]
    /\ UNCHANGED <<config, constructed, intent_patterns, warnings, entity_extractors,
                   now, first, objects, threads>>

\* A classification that also warms the cache for the classified type
ExtractIntent_Warming(text) ==
    /\ constructed = "ok"
    /\ LET classified == extract_intent(intent_patterns, text)
           warmed == _get_entity_extractor(entity_extractors, objects,
                                           IntentTypeValue[classified.value.type])
       IN  /\ call' = [op |-> "extract_intent", arg |-> text, outcome |-> classified]
           /\ entity_extractors' = IF classified.kind = "return"
                                    THEN warmed.cache ELSE entity_extractors
           /\ objects' = IF classified.kind = "return" THEN warmed.objects ELSE objects
    /\ UNCHANGED <<config, constructed, intent_patterns, warnings, now, first, threads>>

ExtractIntent(text) ==
    /\ constructed = "ok"
    /\ call' = [op |-> "extract_intent", arg |-> text,
                outcome |-> extract_intent(intent_patterns, text)]
    /\ UNCHANGED <<config, constructed, intent_patterns, warnings, entity_extractors,
                   now, first, objects, threads>>

\* The state right after NLUPipeline(config_path) returned, for a document
\* of cfgs that __init__ accepts and a clock of clocks.
Constructed(cfgs, clocks) ==
    /\ config \in cfgs
    /\ now \in clocks
    /\ first = NoCall
    /\ objects = << >>
    /\ threads = [t \in Threads |-> Idle]
    /\ _build_intent_patterns(config).status = "ok"
    /\ constructed = "ok"
    /\ intent_patterns = _build_intent_patterns(config).patterns
    /\ warnings = _build_intent_patterns(config).warnings
    /\ entity_extractors = << >>
    /\ call = NoCall

-----------------------------------------------------------------------------
(* Documents used as inputs *)


Pattern(keyword, weight) == [keyword |-> keyword, weight |-> weight]
IntentData(patterns) == [patterns |-> patterns]
Document(intents) == [intents |-> intents]

-----------------------------------------------------------------------------
(* SpecMap: map_to_function applied to every Intent of a bounded set *)

EntityTypes == {"datetime", "person"}
EmptyDict == [k \in {} |-> None]
MetaAbsolute == [type |-> "absolute"]
MetaRelative == [type |-> "relative"]

MapEntities ==
    [type : EntityTypes,
     value : {"v1", "v2"},
     confidence : {Frac(1, 2), Frac(9, 10)},
     start : {0},
     end : {1},
     metadata : {None, Some(EmptyDict), Some(MetaAbsolute), Some(MetaRelative)}]

MapIntents ==
    [type : IntentType,
     confidence : {Zero, Frac(4, 5), One},
     entities : SeqsUpTo(MapEntities, MaxEntities),
     raw_text : {<<"a">>},
     matched_pattern : {None},
     pattern_weight : {Zero}]

MapConfig == Document(<< <<calendar, IntentData(<< Pattern(<<"a">>, One) >>)>> >>)

InitMap == Constructed({MapConfig}, {Morning})
\* map_to_function reads and writes no pipeline state: one call per behaviour
\* covers every call.
NextMap == call.op = "none" /\ \E intent \in MapIntents : MapToFunction(intent)
SpecMap == InitMap /\ [][NextMap]_vars

-----------------------------------------------------------------------------
(* SpecIntent: extract_intent applied to every text of a bounded set, for  *)
(* every document of a bounded set                                         *)

Texts == SeqsUpTo({"a", "b", "A"}, MaxTextLen)
Keywords == {<< >>, <<"a">>, <<"a", "b">>}
Weights == {Frac(-1, 1), Zero, Frac(1, 2), One, Frac(2, 1)}
Patterns == {Pattern(k, w) : k \in Keywords, w \in Weights}
EmailPatterns ==
    {<< >>, << Pattern(<<"a", "b">>, Frac(1, 2)) >>, << Pattern(<<"a">>, One) >>}

\* IntentType['UNKNOWN'] is a member too: a document may configure it
UnknownConfig ==
    Document(<< <<IntentTypeValue.UNKNOWN, IntentData(<< Pattern(<<"a">>, One) >>)>>,
                <<email, IntentData(<< Pattern(<<"a", "b">>, One) >>)>> >>)

IntentConfigs ==
    {Document(<< <<calendar, IntentData(p1)>>, <<email, IntentData(p2)>> >>) :
        p1 \in SeqsUpTo(Patterns, MaxPatterns), p2 \in EmailPatterns}
    \cup {UnknownConfig}

InitIntent == Constructed(IntentConfigs, {Morning})
\* extract_intent reads intent_patterns only and writes no pipeline state:
\* one call per behaviour covers every call.
NextIntent == call.op = "none" /\ \E text \in Texts : ExtractIntent(text)
SpecIntent == InitIntent /\ [][NextIntent]_vars

-----------------------------------------------------------------------------
(* SpecBuild: NLUPipeline(config_path) for every document of a bounded set *)

\* NLUPipeline.__init__, lines 50-52, on the document _load_config returned.
Construct ==
    /\ constructed = "new"
    /\ LET built == _build_intent_patterns(config)
       IN  /\ warnings' = built.warnings
           /\ IF built.status = "ok"
              THEN /\ constructed' = "ok"
                   /\ intent_patterns' = built.patterns
                   /\ entity_extractors' = << >>
              ELSE /\ constructed' = built.status
                   /\ UNCHANGED <<intent_patterns, entity_extractors>>
    /\ UNCHANGED <<config, call, now, first, objects, threads>>

unknown == IntentTypeValue.UNKNOWN
Task == <<"T", "a", "s", "k">>
weather == <<"w", "e", "a", "t", "h", "e", "r">>

BuildNames == {calendar, email, Task, unknown, weather}
BuildData ==
    {YamlNull,
     [description |-> <<"x">>],
     IntentData(<< >>),
     IntentData(<< Pattern(<<"a">>, One) >>),
     IntentData(<< [keyword |-> <<"a">>] >>),
     IntentData(<< Pattern(<<"a">>, One), [weight |-> One] >>)}

\* The keys of a YAML mapping are distinct.
BuildConfigs ==
    {Document(intents) : intents \in
        {d \in SeqsUpTo(BuildNames \X BuildData, MaxIntents) :
            \A i, j \in 1..Len(d) : i # j => d[i][1] # d[j][1]}}

InitBuild ==
    /\ config \in BuildConfigs
    /\ constructed = "new"
    /\ intent_patterns = << >>
    /\ warnings = << >>
    /\ entity_extractors = << >>
    /\ call = NoCall
    /\ now = Morning
    /\ first = NoCall
    /\ objects = << >>
    /\ threads = [t \in Threads |-> Idle]

NextBuild == Construct
SpecBuild == InitBuild /\ [][NextBuild]_vars

-----------------------------------------------------------------------------
(* Spec: a pipeline constructed from a sample document, then any sequence   *)
(* of process, extract_entities, extract_intent and map_to_function calls   *)

\* A process call records the reading of the clock it was made at and
\* whether a process call had been made before it.
Process(text) ==
    /\ constructed = "ok"
    /\ \E done \in {process(intent_patterns, entity_extractors, objects, text, now)} :
       LET made == [op |-> "process", arg |-> text, outcome |-> done.outcome,
                    at |-> now, later |-> first.op = "process",
                    used |-> done.extractor]
       IN  /\ entity_extractors' = done.cache
           /\ objects' = done.objects
           /\ call' = made
           /\ first' = IF first.op = "process" THEN first ELSE made
    /\ UNCHANGED <<config, constructed, intent_patterns, warnings, now, threads>>

ExtractEntities(text, intent_type) ==
    /\ constructed = "ok"
    /\ \E done \in {extract_entities(entity_extractors, objects, text, intent_type, now)} :
           /\ entity_extractors' = done.cache
           /\ objects' = done.objects
           /\ call' = [op |-> "extract_entities", arg |-> <<text, intent_type>>,
                       outcome |-> done.outcome, used |-> done.extractor]
    /\ UNCHANGED <<config, constructed, intent_patterns, warnings, now, first, threads>>

SampleConfig ==
    Document(<<
        <<calendar, IntentData(<< Pattern(<<"m", "e", "e", "t", "i", "n", "g">>, One),
                                  Pattern(<<"s", "c", "h", "e", "d", "u", "l", "e">>, Frac(9, 10)) >>)>>,
        <<email, IntentData(<< Pattern(<<"e", "m", "a", "i", "l">>, One) >>)>>,
        <<task, IntentData(<< Pattern(<<"t", "a", "s", "k">>, One) >>)>>,
        <<note, IntentData(<< Pattern(<<"n", "o", "t", "e">>, Frac(4, 5)) >>)>> >>)

\* A document with keywords for unknown and with weights of 0, below 0 and
\* above 1
OddConfig ==
    Document(<<
        <<unknown, IntentData(<< Pattern(<<"h", "e", "l", "l", "o">>, One) >>)>>,
        <<calendar, IntentData(<< Pattern(<<"m", "e", "e", "t", "i", "n", "g">>, Zero),
                                  Pattern(<<"s", "c", "h", "e", "d", "u", "l", "e">>, Frac(-1, 1)) >>)>>,
        <<email, IntentData(<< Pattern(<<"e", "m", "a", "i", "l">>, Frac(2, 1)) >>)>>,
        <<task, IntentData(<< Pattern(<<"t", "a", "s", "k">>, One) >>)>> >>)

PipelineConfigs == {SampleConfig, OddConfig}

\* The clock moves on between two calls.
Tick ==
    /\ \E later \in Clocks : Before(now, later) /\ now' = later
    /\ UNCHANGED <<config, constructed, intent_patterns, warnings, entity_extractors,
                   call, first, objects, threads>>

ProbeTexts == {MeetingRequest}
SampleNames == {calendar, email, task, note, unknown, weather, Task}

SampleIntents ==
    [type : {"CALENDAR", "UNKNOWN"},
     confidence : {Frac(4, 5)},
     entities : {<< >>},
     raw_text : {<<"h", "e", "l", "l", "o">>},
     matched_pattern : {None},
     pattern_weight : {Zero}]

Init == Constructed(PipelineConfigs, Clocks)

Next ==
    \/ \E text \in SampleTexts : Process(text)
    \/ \E text \in ProbeTexts, intent_type \in SampleNames :
           ExtractEntities(text, intent_type)
    \/ \E text \in ProbeTexts : ExtractIntent(text)
    \/ \E intent \in SampleIntents : MapToFunction(intent)
    \/ Tick

Spec == Init /\ [][Next]_vars

-----------------------------------------------------------------------------
(* SpecExtract: extract_entities applied to every text of up to MaxWords   *)
(* words of a vocabulary, for every sample name                             *)

Vocabulary ==
    {<<"2", "p", "m">>, <<"t", "o", "m", "o", "r", "r", "o", "w">>, <<"B", "o", "b">>, <<"a", "t">>, <<"l", "a", "s", "t">>, <<"u", "r", "g", "e", "n", "t">>,
     <<"5", " ", "h", "o", "u", "r", "s">>, <<"p", "r", "i", "o", "r", "i", "t", "y">>}

RECURSIVE JoinWords(_)
JoinWords(words) ==
    IF Len(words) = 0 THEN << >>
    ELSE IF Len(words) = 1 THEN words[1]
    ELSE words[1] \o <<" ">> \o JoinWords(Tail(words))

WordTexts == {JoinWords(words) : words \in SeqsUpTo(Vocabulary, MaxWords)}

InitExtract == Constructed({SampleConfig}, {Morning})
\* An extractor holds nothing but its pattern table: one call per behaviour
\* covers every call.
NextExtract ==
    call.op = "none" /\ \E text \in WordTexts, intent_type \in SampleNames :
        ExtractEntities(text, intent_type)
SpecExtract == InitExtract /\ [][NextExtract]_vars

-----------------------------------------------------------------------------
(* SpecDate: _parse_datetime applied to a few fragments on every day of a   *)
(* year                                                                     *)

ParseDatetime(value) ==
    /\ constructed = "ok"
    /\ call' = [op |-> "_parse_datetime", arg |-> value,
                outcome |-> Return(_parse_datetime(value, now))]
    /\ UNCHANGED <<config, constructed, intent_patterns, warnings, entity_extractors,
                   now, first, objects, threads>>

Days ==
    {d \in [year : {2025}, month : 1..12, day : 1..31, hour : {9}, minute : {30}] :
        d.day <= DaysInMonth(d.year, d.month)}
DateFragments == {<<"t", "o", "d", "a", "y">>, <<"t", "o", "m", "o", "r", "r", "o", "w">>, <<"2", "p", "m">>, <<"l", "a", "s", "t", " ", "B", "o", "b">>}

InitDate == Constructed({SampleConfig}, Days)
\* _parse_datetime reads and writes no state: one call per behaviour covers
\* every call.
NextDate == call.op = "none" /\ \E value \in DateFragments : ParseDatetime(value)
SpecDate == InitDate /\ [][NextDate]_vars

-----------------------------------------------------------------------------
(* SpecConfidence: _calculate_confidence applied to every entity type and   *)
(* every text of up to MaxWords words of the vocabulary                     *)

CalculateConfidence(entity_type, value) ==
    /\ constructed = "ok"
    /\ call' = [op |-> "_calculate_confidence", arg |-> <<entity_type, value>>,
                outcome |-> Return(_calculate_confidence(entity_type, value))]
    /\ UNCHANGED <<config, constructed, intent_patterns, warnings, entity_extractors,
                   now, first, objects, threads>>

ConfidenceTypes ==
    {"datetime", "person", "location", "duration", "priority", "subject", "email", ""}

InitConfidence == Constructed({SampleConfig}, {Morning})
\* _calculate_confidence reads and writes no state: one call per behaviour
\* covers every call.
NextConfidence ==
    call.op = "none" /\ \E entity_type \in ConfidenceTypes, value \in WordTexts :
        CalculateConfidence(entity_type, value)
SpecConfidence == InitConfidence /\ [][NextConfidence]_vars

-----------------------------------------------------------------------------
(* SpecThreads: threads that call process on one pipeline, each call one    *)
(* statement at a time.  A thread's steps lists the steps of process it has *)
(* completed.                                                               *)

Others == <<config, constructed, intent_patterns, warnings, call, now, first>>
IntentTypeOf(thread) == IntentTypeValue[thread.intent[1].type]
Failed(thread, raised) == [thread EXCEPT !.pc = "done", !.outcome = Some(raised)]

\* thread t calls process(text)
Begin(t, text) ==
    /\ constructed = "ok"
    /\ threads[t].pc \in {"idle", "done"}
    /\ threads' = [threads EXCEPT ![t] = [Idle EXCEPT !.pc = "classify", !.text = text]]
    /\ UNCHANGED <<Others, entity_extractors, objects>>

\* process, line 157: intent = self.extract_intent(text)
Classify(t) ==
    /\ threads[t].pc = "classify"
    /\ LET classified == extract_intent(intent_patterns, threads[t].text)
       IN  threads' = [threads EXCEPT ![t] =
               IF classified.kind = "raise"
               THEN Failed(@, classified)
               ELSE [@ EXCEPT !.pc = "check",
                              !.intent = Some(classified.value),
                              !.steps = Append(@, "classify")]]
    /\ UNCHANGED <<Others, entity_extractors, objects>>

\* _get_entity_extractor, line 75: if intent_type not in self.entity_extractors
Check(t) ==
    /\ threads[t].pc = "check"
    /\ threads' = [threads EXCEPT ![t].pc =
           IF HasKey(entity_extractors, IntentTypeOf(threads[t])) THEN "fetch" ELSE "create"]
    /\ UNCHANGED <<Others, entity_extractors, objects>>

\* line 76, right-hand side: get_entity_extractor(intent_type)
Create(t) ==
    /\ threads[t].pc = "create"
    /\ LET made == get_entity_extractor(IntentTypeOf(threads[t]), objects)
       IN  IF made.kind = "raise"
           THEN /\ threads' = [threads EXCEPT ![t] = Failed(@, made)]
                /\ UNCHANGED objects
           ELSE /\ threads' = [threads EXCEPT ![t].pc = "store",
                                              ![t].created = Some(made.value)]
                /\ objects' = Append(objects, made.value.cls)
    /\ UNCHANGED <<Others, entity_extractors>>

\* line 76, the assignment: self.entity_extractors[intent_type] = ...
StoreCreated(t) ==
    /\ threads[t].pc = "store"
    /\ entity_extractors' =
           Store(entity_extractors, IntentTypeOf(threads[t]), threads[t].created[1])
    /\ threads' = [threads EXCEPT ![t].pc = "fetch"]
    /\ UNCHANGED <<Others, objects>>

\* line 77: return self.entity_extractors[intent_type]
Fetch(t) ==
    /\ threads[t].pc = "fetch"
    /\ threads' = [threads EXCEPT
           ![t].pc = "extract",
           ![t].extractor = Some(Lookup(entity_extractors, IntentTypeOf(threads[t]))),
           ![t].steps = Append(@, "lookup")]
    /\ UNCHANGED <<Others, entity_extractors, objects>>

\* An extraction on the lower-cased text
ExtractStep_Lowered(t) ==
    /\ threads[t].pc = "extract"
    /\ threads' = [threads EXCEPT
           ![t].pc = "attach",
           ![t].entities = Some(ExtractorEntities(threads[t].extractor[1],
                                                  lower(threads[t].text), now)),
           ![t].steps = Append(@, "extract")]
    /\ UNCHANGED <<Others, entity_extractors, objects>>

\* extract_entities, line 122: <extractor>.extract_entities(text)
ExtractStep(t) ==
    /\ threads[t].pc = "extract"
    /\ threads' = [threads EXCEPT
           ![t].pc = "attach",
           ![t].entities = Some(ExtractorEntities(threads[t].extractor[1],
                                                  threads[t].text, now)),
           ![t].steps = Append(@, "extract")]
    /\ UNCHANGED <<Others, entity_extractors, objects>>

\* process, line 159: intent.entities = entities
Attach(t) ==
    /\ threads[t].pc = "attach"
    /\ threads' = [threads EXCEPT
           ![t].pc = "map",
           ![t].intent = Some([@[1] EXCEPT !.entities = threads[t].entities[1]]),
           ![t].steps = Append(@, "attach")]
    /\ UNCHANGED <<Others, entity_extractors, objects>>

\* process, line 160: return self.map_to_function(intent)
Map(t) ==
    /\ threads[t].pc = "map"
    /\ threads' = [threads EXCEPT
           ![t].pc = "done",
           ![t].outcome = Some(Return(map_to_function(threads[t].intent[1]))),
           ![t].steps = Append(@, "map")]
    /\ UNCHANGED <<Others, entity_extractors, objects>>

ThreadTexts == {<< >>, MeetingRequest, EmailRequest}

InitThreads == Constructed({SampleConfig}, {Morning})
NextThreads ==
    \E t \in Threads :
        \/ \E text \in ThreadTexts : Begin(t, text)
        \/ Classify(t)
        \/ Check(t)
        \/ Create(t)
        \/ StoreCreated(t)
        \/ Fetch(t)
        \/ ExtractStep(t)
        \/ Attach(t)
        \/ Map(t)
SpecThreads == InitThreads /\ [][NextThreads]_vars

-----------------------------------------------------------------------------
(* Claims about map_to_function, checked under SpecMap *)

Mapped == call.op = "map_to_function"
MappedIntent == call.arg
MappedCall == call.outcome.value
IsFunctionCall(v) ==
    Len(v) = 1 /\ DOMAIN v[1] = {"name", "parameters", "confidence"}

\* C2: for every Intent, map_to_function returns None if and only if
\* intent.type is UNKNOWN, and a FunctionCall for each of CALENDAR, EMAIL,
\* TASK and NOTE.
C2_NoneIffUnknown ==
    Mapped =>
        /\ call.outcome.kind = "return"
        /\ IsNone(MappedCall) <=> MappedIntent.type = "UNKNOWN"
        /\ MappedIntent.type \in {"CALENDAR", "EMAIL", "TASK", "NOTE"}
              => IsFunctionCall(MappedCall)

\* An UNKNOWN intent that carries entities and a positive confidence was mapped.
C2_Witness ==
    /\ Mapped
    /\ MappedIntent.type = "UNKNOWN"
    /\ Len(MappedIntent.entities) > 0
    /\ Gt(MappedIntent.confidence, Zero)
    /\ IsNone(MappedCall)

\* C3: for every non-UNKNOWN intent the name of the FunctionCall is fixed by
\* the intent type alone: CALENDAR schedule_meeting, EMAIL send_email, TASK
\* create_task, NOTE create_note.
C3_NameByType ==
    (Mapped /\ MappedIntent.type # "UNKNOWN") =>
        /\ IsFunctionCall(MappedCall)
        /\ MappedIntent.type = "CALENDAR" => MappedCall[1].name = "schedule_meeting"
        /\ MappedIntent.type = "EMAIL" => MappedCall[1].name = "send_email"
        /\ MappedIntent.type = "TASK" => MappedCall[1].name = "create_task"
        /\ MappedIntent.type = "NOTE" => MappedCall[1].name = "create_note"

\* A TASK intent with a person entity and confidence zero was mapped.
C3_Witness ==
    /\ Mapped
    /\ MappedIntent.type = "TASK"
    /\ MappedIntent.confidence = Zero
    /\ \E i \in 1..Len(MappedIntent.entities) : MappedIntent.entities[i].type = "person"
    /\ MappedCall[1].name = "create_task"

\* The positions of the entities of type T, and of those that carry metadata
OfType(entities, T) == {i \in 1..Len(entities) : entities[i].type = T}
WithMetadata(entities, T) ==
    {i \in OfType(entities, T) :
        ~IsNone(entities[i].metadata) /\ DOMAIN entities[i].metadata[1] # {}}
Last(S) == CHOOSE i \in S : \A j \in S : j <= i

\* C4: for every non-UNKNOWN intent, parameters[T] is the value of the last
\* entity of type T, parameters[T_metadata] is the metadata of the last entity
\* of type T that carries metadata and is absent when there is none, and no
\* other key exists.
C4_ParametersFold ==
    (Mapped /\ MappedIntent.type # "UNKNOWN") =>
        LET entities == MappedIntent.entities
            parameters == MappedCall[1].parameters
            present == {entities[i].type : i \in 1..Len(entities)}
        IN  /\ DOMAIN parameters \subseteq
                   present \cup {T \o "_metadata" : T \in present}
            /\ \A T \in present :
                  /\ T \in DOMAIN parameters
                  /\ parameters[T] = entities[Last(OfType(entities, T))].value
                  /\ (T \o "_metadata") \in DOMAIN parameters
                        <=> WithMetadata(entities, T) # {}
                  /\ WithMetadata(entities, T) # {} =>
                        parameters[T \o "_metadata"] =
                            entities[Last(WithMetadata(entities, T))].metadata[1]

\* Two datetime entities were folded: the first carries metadata, the second
\* has another value and none.
C4_Witness ==
    /\ Mapped
    /\ MappedIntent.type = "CALENDAR"
    /\ Len(MappedIntent.entities) = 2
    /\ MappedIntent.entities[1].type = "datetime"
    /\ MappedIntent.entities[2].type = "datetime"
    /\ MappedIntent.entities[1].metadata = Some(MetaAbsolute)
    /\ MappedIntent.entities[2].metadata = None
    /\ MappedIntent.entities[1].value # MappedIntent.entities[2].value
    /\ MappedCall[1].parameters =
          [k \in {"datetime", "datetime_metadata"} |->
              IF k = "datetime" THEN MappedIntent.entities[2].value ELSE MetaAbsolute]

\* C5: for every non-UNKNOWN intent the confidence of the FunctionCall is
\* intent.confidence, whatever the confidences of the entities are.
C5_ConfidenceVerbatim ==
    (Mapped /\ MappedIntent.type # "UNKNOWN") =>
        MappedCall[1].confidence = MappedIntent.confidence

\* An intent was mapped whose entities all have a confidence other than its own.
C5_Witness ==
    /\ Mapped
    /\ MappedIntent.type = "EMAIL"
    /\ Len(MappedIntent.entities) = 2
    /\ MappedIntent.entities[1].confidence # MappedIntent.entities[2].confidence
    /\ \A i \in 1..2 : MappedIntent.entities[i].confidence # MappedIntent.confidence
    /\ MappedCall[1].confidence = MappedIntent.confidence

-----------------------------------------------------------------------------
(* Claims about extract_intent, checked under SpecIntent *)

Classified == call.op = "extract_intent"
ClassifiedText == lower(call.arg)
Configured == Flatten(intent_patterns, 1)
\* The positions of the configured pairs whose keyword occurs in the text
MatchingIn(flat, text) == {i \in 1..Len(flat) : Contains(flat[i].pattern, text)}
Matching == MatchingIn(Configured, ClassifiedText)
\* (len(keyword) / len(text)) * weight of each pair, for a text that is not empty
ScoresOf(flat, text) ==
    [i \in 1..Len(flat) |-> Mul(Frac(Len(flat[i].pattern), Len(text)), flat[i].weight)]
InUnitInterval(x) == Geq(x, Zero) /\ Geq(One, x)

\* C6: for every text and every loaded configuration the confidence of the
\* Intent returned by extract_intent lies in [0,1], and so does the
\* confidence of any FunctionCall that process returns.
C6_ConfidenceInUnitInterval ==
    /\ (Classified /\ call.outcome.kind = "return")
          => InUnitInterval(call.outcome.value.confidence)
    /\ (call.op = "process" /\ call.outcome.kind = "return"
            /\ ~IsNone(call.outcome.value))
          => InUnitInterval(call.outcome.value[1].confidence)

\* C7: extract_intent returns UNKNOWN with confidence 0.0 and raises no error
\* whenever the text is empty or no configured keyword occurs in the
\* lower-cased text, for every configuration.
C7_UnknownWithoutMatch ==
    (Classified /\ (Len(call.arg) = 0 \/ Matching = {})) =>
        /\ call.outcome.kind = "return"
        /\ call.outcome.value.type = "UNKNOWN"
        /\ call.outcome.value.confidence = Zero

\* Position i holds the triple the claim names: its score is maximal among
\* the matching pairs M and no earlier matching pair has the same score.
FirstBest(M, score, i) ==
    /\ i \in M
    /\ \A j \in M : Geq(score[i], score[j])
    /\ \A j \in M : j < i => Gt(score[i], score[j])
ReturnsTriple(triple, score) ==
    /\ call.outcome.kind = "return"
    /\ call.outcome.value.type = triple.intent_type
    /\ call.outcome.value.confidence = score
    /\ call.outcome.value.matched_pattern = Some(triple.pattern)
    /\ call.outcome.value.pattern_weight = triple.weight

\* C8 as stated: when at least one configured keyword occurs in the
\* lower-cased text (a text that is not empty, so that the score is defined),
\* extract_intent returns the first triple of maximal score.
C8_BestMatch ==
    (Classified /\ Len(call.arg) > 0 /\ Matching # {}) =>
        LET flat == Configured
            M == Matching
            score == ScoresOf(flat, ClassifiedText)
        IN  \E i \in M : FirstBest(M, score, i) /\ ReturnsTriple(flat[i], score[i])

\* C8 amended: when at least one configured keyword occurs in the lower-cased
\* text with a score strictly greater than 0, extract_intent returns the
\* triple of maximal score, the first in iteration order among equals, with
\* that triple's confidence, matched_pattern and pattern_weight.
C8_BestPositiveMatch ==
    (Classified /\ Len(call.arg) > 0) =>
        LET flat == Configured
            M == Matching
            score == ScoresOf(flat, ClassifiedText)
        IN  (\E i \in M : Gt(score[i], Zero)) =>
                \E i \in M : FirstBest(M, score, i) /\ ReturnsTriple(flat[i], score[i])

\* Two matching pairs of different intents and keywords tie at the maximal,
\* positive score while a third scores less, and the earlier of the two was
\* returned.
C8_Witness ==
    /\ Classified
    /\ Len(call.arg) > 0
    /\ LET flat == Configured
           M == Matching
           score == ScoresOf(flat, ClassifiedText)
       IN  \E i, j \in M :
              /\ i < j
              /\ FirstBest(M, score, i)
              /\ score[j] = score[i]
              /\ Gt(score[i], Zero)
              /\ flat[i].intent_type # flat[j].intent_type
              /\ flat[i].pattern # flat[j].pattern
              /\ \E k \in M : Gt(score[i], score[k]) /\ Gt(score[k], Zero)
              /\ ReturnsTriple(flat[i], score[i])

-----------------------------------------------------------------------------
(* Claims about construction, checked under SpecBuild *)

RecognizedNames ==
    {IntentTypeName.CALENDAR, IntentTypeName.EMAIL, IntentTypeName.TASK, IntentTypeName.NOTE}
UnrecognizedName(entry) == upper(entry[1]) \notin RecognizedNames
MalformedPatterns(entry) ==
    \/ IsYamlNull(entry[2])
    \/ "patterns" \notin DOMAIN entry[2]
    \/ \E i \in 1..Len(entry[2].patterns) :
          ~({"keyword", "weight"} \subseteq DOMAIN entry[2].patterns[i])

\* C10: construction fails when the configuration contains an intent name
\* that is not one of calendar, email, task, note, or a malformed pattern
\* list; such an entry is never skipped, leaving a pipeline built from the
\* remaining intents.
C10_InvalidConfigFails ==
    (/\ constructed # "new"
     /\ \E i \in 1..Len(config.intents) :
           UnrecognizedName(config.intents[i]) \/ MalformedPatterns(config.intents[i]))
        => constructed # "ok"

-----------------------------------------------------------------------------
(* Claims about process, checked under Spec *)

Processed == call.op = "process"
ClassifiedUnknown(text) ==
    LET classified == extract_intent(intent_patterns, text)
    IN  classified.kind = "return" /\ classified.value.type = "UNKNOWN"

\* C1: for every text that extract_intent classifies as UNKNOWN, the empty
\* and the whitespace-only text included, process(text) returns None and
\* raises no error.
C1_UnknownReturnsNone ==
    (Processed /\ ClassifiedUnknown(call.arg))
        => (call.outcome.kind = "return" /\ call.outcome.value = None)

\* The process call in `call` repeats the text of the first process call.
Repeated == Processed /\ call.later /\ call.arg = first.arg

FunctionNames == {"schedule_meeting", "send_email", "create_task", "create_note"}
ReturnedCall ==
    Processed /\ call.outcome.kind = "return" /\ ~IsNone(call.outcome.value)

\* C17: whenever process returns a FunctionCall, its name is one of
\* schedule_meeting, send_email, create_task, create_note and its confidence
\* is strictly greater than 0.
C17_CallNamedAndConfident ==
    ReturnedCall =>
        /\ call.outcome.value[1].name \in FunctionNames
        /\ Gt(call.outcome.value[1].confidence, Zero)

\* process returned a FunctionCall for the bare keyword "schedule"
C17_Witness ==
    /\ ReturnedCall
    /\ call.arg = <<"s", "c", "h", "e", "d", "u", "l", "e">>
    /\ call.outcome.value[1].name = "schedule_meeting"
    /\ call.outcome.value[1].confidence = Frac(9, 10)

\* C20: no extract_intent, extract_entities, map_to_function or process call,
\* successful or failing, changes the loaded configuration or the intent
\* pattern table, and a step that ends in an extract_intent or
\* map_to_function call leaves the extractor cache as it was too.
C20_Frame ==
    [][/\ config' = config
       /\ intent_patterns' = intent_patterns
       /\ call'.op \in {"extract_intent", "map_to_function"}
              => entity_extractors' = entity_extractors]_vars

\* A map_to_function call after a failed first process call, on a cache that
\* extractions have filled, with the pattern table as built at construction
C20_Witness ==
    /\ call.op = "map_to_function"
    /\ first.op = "process"
    /\ first.outcome.kind = "raise"
    /\ Len(entity_extractors) >= 2
    /\ intent_patterns = _build_intent_patterns(config).patterns

-----------------------------------------------------------------------------
(* Claims about the extractor factory and the cache, checked under Spec *)

Registered == {extractors[i][1] : i \in 1..Len(extractors)}
Requested == call.op = "extract_entities"

\* C11: requesting the extractor of an intent name other than calendar,
\* email, task and note fails with ValueError, and the cache never holds an
\* entry for such a name.
C11_UnsupportedNameFails ==
    /\ (Requested /\ call.arg[2] \notin Registered)
           => (call.outcome.kind = "raise" /\ call.outcome.error = "ValueError")
    /\ \A i \in 1..Len(entity_extractors) : entity_extractors[i][1] \in Registered

\* An extractor was requested for "weather" on a cache that holds entries.
C11_Witness ==
    /\ Requested
    /\ call.arg[2] = weather
    /\ call.outcome.kind = "raise"
    /\ Len(entity_extractors) >= 2

-----------------------------------------------------------------------------
(* Claims about the extractors, checked under SpecExtract *)

\* The call in `call` ran the extractor of intent_type and returned entities.
ExtractedBy(intent_type) ==
    Requested /\ call.arg[2] = intent_type /\ call.outcome.kind = "return"
ScannedText == call.arg[1]
Found == call.outcome.value
DatetimesFound == {i \in 1..Len(Found) : Found[i].type = "datetime"}

\* The datetime fragments of a text: the matches of the datetime patterns
Fragments(text) ==
    EntitiesOfPatterns("CalendarEntityExtractor", "datetime", DatetimePatterns, 1, text, now)

\* The fragments of F with index in S, sorted by start offset
RECURSIVE SortedByStart(_, _)
SortedByStart(F, S) ==
    IF S = {}
    THEN << >>
    ELSE LET i == CHOOSE i \in S : \A j \in S :
                      F[i].start < F[j].start \/ (F[i].start = F[j].start /\ i <= j)
         IN  <<F[i]>> \o SortedByStart(F, S \ {i})

MaxConfidence(F) ==
    F[CHOOSE i \in 1..Len(F) : \A j \in 1..Len(F) : Geq(F[i].confidence, F[j].confidence)].confidence

\* C12: when the calendar extractor finds datetime fragments and the date
\* parser succeeds on the fragments sorted by start and joined by single
\* spaces, the result has exactly one datetime entity, from the first
\* fragment's start to the last fragment's end, with the greatest of the
\* fragments' confidences.
C12_MergedDatetime ==
    ExtractedBy(calendar) =>
        LET F == Fragments(ScannedText)
            sorted == SortedByStart(F, 1..Len(F))
            joined == JoinWords([i \in 1..Len(sorted) |-> sorted[i].value])
        IN  (Len(F) >= 1 /\ ~IsNone(dateparser_parse(joined, now))) =>
                /\ Cardinality(DatetimesFound) = 1
                /\ \A i \in DatetimesFound :
                       /\ Found[i].start = sorted[1].start
                       /\ Found[i].end = sorted[Len(sorted)].end
                       /\ Found[i].confidence = MaxConfidence(F)

\* C13: when the date parser returns None for a datetime fragment, calendar
\* extraction still returns: the fragment is a datetime entity with its own
\* value and span, and its metadata is original = human_readable = the
\* fragment, parsed None, type unknown; the type is absolute or relative only
\* when the parser succeeded.
C13_UnparsedFragmentKept ==
    (Requested /\ call.arg[2] = calendar) =>
        /\ call.outcome.kind = "return"
        /\ \A i \in DatetimesFound :
               LET entity == Found[i]
                   parsed == dateparser_parse(entity.value, now)
               IN  /\ entity.value = SubSeq(ScannedText, entity.start + 1, entity.end)
                   /\ ~IsNone(entity.metadata)
                   /\ IsNone(parsed) =>
                          entity.metadata[1] = [original |-> entity.value,
                                                parsed |-> None,
                                                type |-> "unknown",
                                                human_readable |-> entity.value]
                   /\ entity.metadata[1].type \in {"absolute", "relative"} => ~IsNone(parsed)
        /\ Cardinality(DatetimesFound) = Len(Fragments(ScannedText))

\* A calendar extraction with a fragment the parser fails on, next to one it parses
C13_Witness ==
    /\ ExtractedBy(calendar)
    /\ \E i \in DatetimesFound :
           /\ IsNone(dateparser_parse(Found[i].value, now))
           /\ Found[i].metadata[1].type = "unknown"
    /\ \E i \in DatetimesFound : Found[i].metadata[1].type = "relative"

-----------------------------------------------------------------------------
(* Claims about _parse_datetime, checked under SpecDate *)

\* The call in `call` is a _parse_datetime call on which the parser succeeded.
ParsedDate == call.op = "_parse_datetime" /\ ~IsNone(call.outcome.value.parsed)
ParsedDay == call.outcome.value.parsed[1].day
\* The two characters after "<month name> <two digits>" in human_readable
SuffixShown ==
    LET at == Len(MonthNames[call.outcome.value.parsed[1].month]) + 3
    IN  SubSeq(call.outcome.value.human_readable, at + 1, at + 2)

OrdinalSuffix(d) ==
    IF d \in {1, 21, 31} THEN <<"s", "t">>
    ELSE IF d \in {2, 22} THEN <<"n", "d">>
    ELSE IF d \in {3, 23} THEN <<"r", "d">>
    ELSE <<"t", "h">>

\* C14: for every day of month in 1..31 of a parsed date, the suffix shown
\* after the day is st for 1, 21, 31, nd for 2, 22, rd for 3, 23 and th for
\* every other day, 11, 12 and 13 included.
C14_OrdinalSuffix ==
    ParsedDate => (ParsedDay \in 1..31 /\ SuffixShown = OrdinalSuffix(ParsedDay))

\* "tomorrow" parsed on the 11th of a month: the 12th
C14_Witness ==
    /\ ParsedDate
    /\ now.day = 11
    /\ ParsedDay = 12
    /\ SuffixShown = <<"t", "h">>

-----------------------------------------------------------------------------
(* Claims about _calculate_confidence, checked under SpecConfidence *)

Rated == call.op = "_calculate_confidence"
RatedType == call.arg[1]
RatedValue == call.arg[2]

\* The value is a clock time: one or two digits, optional minutes, optional
\* spaces and am/pm, and nothing else
IsClockTime(value) == MatchEnd(<<ClockTime, EndOfString>>, value, 0) >= 0
IsRelativeDay(value) ==
    value \in {<<"t", "o", "d", "a", "y">>, <<"t", "o", "m", "o", "r", "r", "o", "w">>,
               <<"y", "e", "s", "t", "e", "r", "d", "a", "y">>}
\* The value begins with a clock time, or with a relative day as a whole word
BeginsWithClockTime(value) == MatchEnd(<<ClockTime>>, value, 0) >= 0
BeginsWithRelativeDay(value) ==
    \E word \in {<<"t", "o", "d", "a", "y">>, <<"t", "o", "m", "o", "r", "r", "o", "w">>,
                  <<"y", "e", "s", "t", "e", "r", "d", "a", "y">>} :
        /\ Len(value) >= Len(word)
        /\ SubSeq(value, 1, Len(word)) = word
        /\ (Len(value) = Len(word) \/ value[Len(word) + 1] \notin WordChars)

\* The table of the claim, for a given reading of "clock time" and "relative day"
ConfidenceTable(entity_type, value, clock_time, relative_day) ==
    CASE entity_type = "datetime" ->
             IF clock_time THEN Frac(95, 100)
             ELSE IF relative_day THEN Frac(85, 100)
             ELSE Frac(9, 10)
      [] entity_type = "person" ->
             IF TokenCount(value) > 1 THEN Frac(9, 10) ELSE Frac(8, 10)
      [] entity_type = "duration" -> Frac(8, 10)
      [] entity_type \in {"location", "priority", "subject"} -> Frac(7, 10)
      [] OTHER -> Frac(6, 10)

\* C15 as stated: the confidence follows the table, with 0.95 for a datetime
\* value that is a clock time and 0.85 for one that is today, tomorrow or
\* yesterday.
C15_ConfidenceByValue ==
    Rated => call.outcome.value =
                 ConfidenceTable(RatedType, RatedValue,
                                 IsClockTime(RatedValue), IsRelativeDay(RatedValue))

\* C15: the confidence follows the table, with 0.95 for a datetime value that
\* begins with a clock time and 0.85 for one that begins with the word today,
\* tomorrow or yesterday.
C15_ConfidenceByPrefix ==
    Rated => call.outcome.value =
                 ConfidenceTable(RatedType, RatedValue,
                                 BeginsWithClockTime(RatedValue),
                                 BeginsWithRelativeDay(RatedValue))

\* A datetime value that begins with a clock time without being one
C15_Witness ==
    /\ Rated
    /\ RatedType = "datetime"
    /\ BeginsWithClockTime(RatedValue)
    /\ ~IsClockTime(RatedValue)
    /\ call.outcome.value = Frac(95, 100)

\* C16: every Entity an extractor returns for a text has
\* 0 <= start <= end <= len(text) and 0 <= confidence <= 1.
C16_SpansAndConfidence ==
    (Requested /\ call.outcome.kind = "return") =>
        \A i \in 1..Len(Found) :
            /\ 0 <= Found[i].start
            /\ Found[i].start <= Found[i].end
            /\ Found[i].end <= Len(ScannedText)
            /\ Geq(Found[i].confidence, Zero)
            /\ Geq(One, Found[i].confidence)

\* An extraction with an entity at the start of the text and one at its end
C16_Witness ==
    /\ Requested
    /\ call.outcome.kind = "return"
    /\ \E i, j \in 1..Len(Found) :
           /\ i # j
           /\ Found[i].start = 0
           /\ Found[j].end = Len(ScannedText)
           /\ Found[j].start > 0

-----------------------------------------------------------------------------
(* Claims about concurrent process calls and the steps of process, checked  *)
(* under SpecThreads                                                        *)

ObjectsOf(cls) == {i \in 1..Len(objects) : objects[i] = cls}
Holding(t) == ~IsNone(threads[t].extractor)

\* C18: however process calls interleave, at most one extractor object is
\* ever constructed for an intent type, and all threads that obtained the
\* extractor of one intent type hold the same object.
C18_AtomicInsert ==
    /\ \A i \in 1..Len(extractors) : Cardinality(ObjectsOf(extractors[i][2])) <= 1
    /\ \A t, u \in Threads :
           (Holding(t) /\ Holding(u)
                /\ threads[t].extractor[1].cls = threads[u].extractor[1].cls)
               => threads[t].extractor[1].id = threads[u].extractor[1].id

ProcessSteps == <<"classify", "lookup", "extract", "attach", "map">>
IsPrefix(a, b) == Len(a) <= Len(b) /\ SubSeq(b, 1, Len(a)) = a

\* C19: a process call completes its steps in the order classify, lookup,
\* extract, attach, map; the extractor it uses is the one registered for the
\* classified intent type, the entities are those of the original text, and
\* the function call is mapped from the intent with those entities attached.
C19_StepsInOrder ==
    \A t \in Threads :
        LET thread == threads[t]
            classified == extract_intent(intent_patterns, thread.text).value
        IN  /\ IsPrefix(thread.steps, ProcessSteps)
            /\ Holding(t) =>
                   /\ ~IsNone(thread.intent)
                   /\ thread.intent[1] =
                          IF Len(thread.steps) >= 4
                          THEN [classified EXCEPT !.entities = thread.entities[1]]
                          ELSE classified
                   /\ thread.extractor[1].cls = Lookup(extractors, IntentTypeOf(thread))
            /\ ~IsNone(thread.entities) =>
                   /\ Holding(t)
                   /\ thread.entities[1] =
                          ExtractorEntities(thread.extractor[1], thread.text, now)
            /\ Len(thread.steps) = 5 =>
                   thread.outcome = Some(Return(map_to_function(thread.intent[1])))

\* A finished call whose function call carries a capitalised name found in
\* the original text, while the other thread holds its extractor
C19_Witness ==
    \E t, u \in Threads :
        /\ t # u
        /\ threads[t].steps = ProcessSteps
        /\ threads[t].text = MeetingRequest
        /\ threads[t].outcome[1].value[1].parameters.person = <<"B", "o", "b">>
        /\ threads[u].steps = <<"classify", "lookup">>

\* The pattern table of the extractor that answered the call, and the matches
\* of its patterns in the scanned text: a match is <<i, j, k>>, the k-th
\* finditer match of the j-th pattern of the i-th entity type.
PatternTable == ExtractorPatterns[Lookup(extractors, call.arg[2])]
PatternSlots ==
    UNION {{<<i, j>> : j \in 1..Len(PatternTable[i][2])} : i \in 1..Len(PatternTable)}
SpansOf == [s \in PatternSlots |-> FindIter(PatternTable[s[1]][2][s[2]], ScannedText)]
AllMatches ==
    UNION {{<<s[1], s[2], k>> : k \in 1..Len(SpansOf[s])} : s \in PatternSlots}
\* m comes before n: by entity type, then by pattern, then by position
MatchBefore(m, n) ==
    \/ m[1] < n[1]
    \/ m[1] = n[1] /\ m[2] < n[2]
    \/ m[1] = n[1] /\ m[2] = n[2] /\ m[3] < n[3]
PlaceOf(m) == Cardinality({n \in AllMatches : MatchBefore(n, m)}) + 1
\* Two matches of different patterns of one entity type that overlap
OverlappingMatches ==
    \E m, n \in AllMatches :
        /\ m[1] = n[1] /\ m[2] < n[2]
        /\ SpansOf[<<m[1], m[2]>>][m[3]].start < SpansOf[<<n[1], n[2]>>][n[3]].end
        /\ SpansOf[<<n[1], n[2]>>][n[3]].start < SpansOf[<<m[1], m[2]>>][m[3]].end
\* The last match of the last matching pattern of the entity type of m
LastOfType(m) == \A n \in AllMatches : n[1] = m[1] => (n = m \/ MatchBefore(n, m))

\* C21: an extractor returns one entity for every match of every pattern,
\* nothing deduplicated, ordered by entity type in table order, then by
\* pattern, then by position; the parameter map_to_function keeps for a type
\* is the last match of the last matching pattern of the type.
C21_EveryMatchInOrder ==
    (Requested /\ call.outcome.kind = "return") =>
        /\ Len(Found) = Cardinality(AllMatches)
        /\ \A m \in AllMatches :
               LET span == SpansOf[<<m[1], m[2]>>][m[3]]
                   entity == Found[PlaceOf(m)]
               IN  /\ entity.type = PatternTable[m[1]][1]
                   /\ entity.start = span.start
                   /\ entity.end = span.end
                   /\ entity.value = SubSeq(ScannedText, span.start + 1, span.end)
                   /\ LastOfType(m) =>
                          Parameters(Found, 1, << >>)[entity.type] = entity.value

\* An extraction where two patterns of one entity type match overlapping text
C21_Witness ==
    /\ Requested
    /\ call.outcome.kind = "return"
    /\ OverlappingMatches

\* The keys of the extractor cache
CacheKeys(cache) == {cache[i][1] : i \in 1..Len(cache)}
\* The call in `call` asked for an extraction
Extracting == call.op \in {"process", "extract_entities"}
\* The intent types the call `made` asked an extractor for: the given one for
\* extract_entities, the classified one for process (none when the
\* classification failed)
RequestedTypes(made) ==
    IF made.op = "extract_entities"
    THEN {made.arg[2]}
    ELSE LET classified == extract_intent(intent_patterns, made.arg)
         IN  IF classified.kind = "raise"
             THEN {}
             ELSE {IntentTypeValue[classified.value.type]}
\* An entry of the cache is never replaced or removed, no key is held twice,
\* and a call for a cached intent type gets the cached instance and
\* constructs nothing
EntriesKeptAndReused(made, requested) ==
    /\ \A k \in CacheKeys(entity_extractors) :
           /\ k \in CacheKeys(entity_extractors')
           /\ Lookup(entity_extractors', k) = Lookup(entity_extractors, k)
    /\ Len(entity_extractors') = Cardinality(CacheKeys(entity_extractors'))
    /\ \A k \in requested \cap CacheKeys(entity_extractors) :
           /\ made.used = Some(Lookup(entity_extractors, k))
           /\ objects' = objects
\* A call for an intent type that is not cached and has an extractor creates
\* the instance it gets and caches it
FirstCallCreates(made, requested) ==
    \A k \in (requested \cap Registered) \ CacheKeys(entity_extractors) :
        /\ made.used = Some(Lookup(entity_extractors', k))
        /\ made.used[1].id = Len(objects) + 1
        /\ objects' = Append(objects, made.used[1].cls)
\* A step that is a process or extract_entities call satisfies Step(made,
\* requested) for the call it made and the intent types the call asked for
ExtractionStep(Step(_, _)) ==
    (Extracting' /\ now' = now) =>
        \E made \in {call'} : \E requested \in {RequestedTypes(made)} :
            Step(made, requested)

\* The cache after a call, as stated: an entry for whatever type was asked for
EntryForEveryRequest(made, requested) ==
    /\ CacheKeys(entity_extractors') \subseteq Registered
    /\ CacheKeys(entity_extractors') = CacheKeys(entity_extractors) \cup requested
    /\ EntriesKeptAndReused(made, requested)
    /\ FirstCallCreates(made, requested)

\* C22 as stated: after a process or extract_entities call the cache has
\* keys only among calendar, email, task and note and an entry for the
\* intent type the call asked for, next to the entries it had, which are
\* kept and reused.
C22_EntryForEveryRequest == [][ExtractionStep(EntryForEveryRequest)]_vars

\* The cache after a call: an entry for the type asked for when it has an extractor
EntryForEverySupportedRequest(made, requested) ==
    /\ CacheKeys(entity_extractors') \subseteq Registered
    /\ CacheKeys(entity_extractors') =
           CacheKeys(entity_extractors) \cup (requested \cap Registered)
    /\ requested \cap Registered = {} =>
           (made.used = None /\ made.outcome.kind = "raise" /\ objects' = objects)
    /\ EntriesKeptAndReused(made, requested)
    /\ FirstCallCreates(made, requested)

\* C22: in sequential use the cache has keys only among calendar, email,
\* task and note; a process or extract_entities call adds an entry for the
\* intent type it asks for exactly when that type has an extractor and no
\* entry yet, and adds nothing else (a call for another name fails and
\* leaves the cache as it was); an entry is never replaced or removed, and
\* every later call for its intent type gets the instance the first call
\* created.
C22_EntryForEverySupportedRequest ==
    [][ExtractionStep(EntryForEverySupportedRequest)]_vars

\* A call that got an instance created by an earlier call, after which other
\* extractors were constructed
C22_Witness ==
    /\ Extracting
    /\ ~IsNone(call.used)
    /\ call.used[1].id < Len(objects)
    /\ Len(entity_extractors) = Len(objects)
    /\ Len(entity_extractors) >= 2

\* C23: the Intent extract_intent returns is consistent: of type UNKNOWN
\* with confidence 0.0 and no matched_pattern, or of another type with a
\* confidence strictly greater than 0 and a matched_pattern that is a keyword
\* configured for that type and occurs in the lower-cased text.
C23_ConsistentIntent ==
    (Classified /\ call.outcome.kind = "return") =>
        LET intent == call.outcome.value
        IN  IF intent.type = "UNKNOWN"
            THEN /\ intent.confidence = Zero
                 /\ IsNone(intent.matched_pattern)
            ELSE /\ Gt(intent.confidence, Zero)
                 /\ \E i \in Matching :
                        /\ Configured[i].intent_type = intent.type
                        /\ intent.matched_pattern = Some(Configured[i].pattern)

====
